---- MODULE Spec2Model ----
(***************************************************************************)
(* gopro2gpx: the telemetry fold BuildGPSPoints and its caller main().     *)
(*                                                                         *)
(* Python's None is the empty sequence <<>> and a present value v is the   *)
(* one-element sequence <<v>>, so that "x is None" and "x == 0" are both   *)
(* comparisons of sequences.  Floats are exact rationals [n, d] in lowest  *)
(* terms with d > 0; the raw payloads and the scale components are         *)
(* integers, as the decoded telemetry delivers them.                       *)
(***************************************************************************)
EXTENDS Integers, Sequences, FiniteSets, TLC

VARIABLES
    \* ---- main()
    mpc,            \* position of main(): "loop", "build", "kml", "done", "exit", "crash"
    skip,           \* args.skip
    nfiles,         \* len(config.files)
    file_idx,       \* number of files main() has folded completely
    m_points,       \* main's points
    m_start_time,   \* main's start_time
    kml_written,    \* the KML file has been written
    gpx_written,    \* the GPX file has been written
    \* ---- BuildGPSPoints locals
    last_lat, last_lon,
    points,
    SCAL,
    GPSU,
    SYST,
    start_time,
    stats,
    GPSFIX,
    GPSFIX_next,
    left,           \* samples of the current GPS5 record not yet iterated
    exc,            \* the exception that ended the run, "" if none
    \* ---- observation (history) variables, read by no action's effect
    nstep,          \* records and GPS5 samples consumed so far in the whole run
    nsamp,          \* GPS5 samples consumed so far in this stream
    fix_seen,       \* codes of the last two GPSF records of this stream
    first_gpsu,     \* payload of the first GPSU record of this stream
    origin,         \* for each Point of points, the tag of the record it came from
    parts,          \* the (points, start_time) result of every call that has returned
    e2e             \* the stream so far is the first e2e steps of SCAL(1,1,1), GPSU(t),
                    \* GPSF(1), GPSF(1), GPS5 of one sample, sample (10,20,0); -1 if it is not

vars == << mpc, skip, nfiles, file_idx, m_points, m_start_time, kml_written,
           gpx_written, last_lat, last_lon, points, SCAL, GPSU, SYST,
           start_time, stats, GPSFIX, GPSFIX_next, left, exc, nstep,
           nsamp, fix_seen, first_gpsu, origin, parts, e2e >>

mainVars == << skip, nfiles, file_idx, m_points, m_start_time, kml_written,
               gpx_written, parts >>

----------------------------------------------------------------------------
\* Bounds of the model

\* records and samples explored in a run of main() over at most one file
MaxSteps == 6
\* files given to main()
MaxFiles == 2
\* records and samples explored, over all files, in a run over several files
MaxStepsMany == 4

StepBound(n) == IF n <= 1 THEN MaxSteps ELSE MaxStepsMany

----------------------------------------------------------------------------
\* Values

None == << >>
Some(v) == << v >>

Abs(x) == IF x < 0 THEN -x ELSE x

RECURSIVE GCD(_, _)
GCD(a, b) == IF b = 0 THEN a ELSE GCD(b, a % b)

\* float(x) / float(y) for integers x and y # 0, in lowest terms
Div(x, y) ==
    LET g == GCD(Abs(x), Abs(y))
        s == IF y < 0 THEN -1 ELSE 1
    IN  [n |-> (s * x) \div g, d |-> Abs(y) \div g]

\* abs(a - b) > 1.0: the difference taken without the inner abs()
AbsDiffOverOne_Signed(a, b) ==
    Abs(a.n * b.d - b.n * a.d) > a.d * b.d

\* abs(abs(a) - abs(b)) > 1.0 on rationals
AbsDiffOverOne(a, b) ==
    Abs(Abs(a.n) * b.d - Abs(b.n) * a.d) > a.d * b.d

\* the local UTC offset, in seconds, of the machine the program runs on
TZOffset == 60 * 60

\* time.mktime(t): the struct_time t, a local wall-clock time, as epoch seconds
Mktime(t) == t - TZOffset

\* datetime.fromtimestamp(e): epoch seconds (a float) as a local wall-clock time
FromTimestamp(e) == [n |-> e.n + TZOffset * e.d, d |-> e.d]

\* datetime.fromtimestamp(time.mktime(t))
Decode(t) == FromTimestamp(Div(Mktime(t), 1))

----------------------------------------------------------------------------
\* Inputs: the payloads a record can carry

NoFix == 0
FixCodes == {0, 1, 3, 5}

Times == {100, 200}

Scales == { <<1, 1, 1>>, <<10, 10, 1>>, <<10, 10, 0>>, <<0, 1, 1>> }

Sample(lat, lon, alt) == [lat |-> lat, lon |-> lon, alt |-> alt]

Samples == { Sample(0, 0, 0), Sample(450, 200, 0), Sample(465, 200, 0),
             Sample(453, 200, 0), Sample(-453, 200, 0), Sample(460, 200, 0),
             Sample(450, 220, 0), Sample(10, 20, 0), Sample(0, 0, 5) }

KarmaSamples == { Sample(0, 0, 0), Sample(450, 200, 0), Sample(0, 0, 5) }

SystPayloads == { <<0, 0>>, <<7, 0>>, <<7, 500>> }

OtherTags == {"ACCL"}

----------------------------------------------------------------------------
\* BuildGPSPoints

ZeroStats == [ok |-> 0, badfix |-> 0, badfixskip |-> 0, empty |-> 0]

Bump(s, key) == [s EXCEPT ![key] = @ + 1]

\* the test written with `or`: any zero field makes the sample empty
IsEmpty_AnyZero(it) == it.lon = 0 \/ it.lat = 0 \/ it.alt = 0

\* item.lon == item.lat == item.alt == 0
IsEmpty(it) == it.lon = it.lat /\ it.lat = it.alt /\ it.alt = 0

\* the division of the zipped fields raises ZeroDivisionError
ScaleRaises(fields, scal) ==
    \E i \in 1..Len(fields) : i <= Len(scal) /\ scal[i] = 0

\* [ float(x) / float(y) for x, y in zip(fields, list(SCAL)) ]
Scaled(fields, scal) ==
    [i \in 1..(IF Len(fields) < Len(scal) THEN Len(fields) ELSE Len(scal))
        |-> Div(fields[i], scal[i])]

ItemFields(it) == << it.lat, it.lon, it.alt >>

\* gpshelper.GPSPoint(lat, lon, alt, time, speed); the speed takes part in no
\* decision and is left out
GPSPoint(lat, lon, alt, time) ==
    [lat |-> lat, lon |-> lon, alt |-> alt, time |-> time]

\* the Point put at the head of the list
AddPoint_Front(pts, p) == << p >> \o pts

\* line 114 and 145: points.append(p)
AddPoint(pts, p) == Append(pts, p)

\* lines 40-58: the locals of a fresh call
BuildInit ==
    /\ last_lat = None
    /\ last_lon = None
    /\ points = << >>
    /\ SCAL = <<1, 1, 1>>
    /\ GPSU = None
    /\ SYST = << Div(0, 1), Div(0, 1) >>
    /\ start_time = None
    /\ stats = ZeroStats
    /\ GPSFIX = None
    /\ GPSFIX_next = 0
    /\ left = 0
    /\ exc = ""
    /\ nsamp = 0
    /\ fix_seen = << >>
    /\ first_gpsu = None
    /\ origin = << >>
    /\ e2e = 0

Init ==
    /\ mpc = "loop"
    /\ skip \in BOOLEAN
    /\ nfiles \in 0..MaxFiles
    /\ file_idx = 0
    /\ m_points = << >>
    /\ m_start_time = None
    /\ kml_written = FALSE
    /\ gpx_written = FALSE
    /\ parts = << >>
    /\ nstep = 0
    /\ BuildInit

----------------------------------------------------------------------------
\* The record handlers of the for loop (lines 59-146).  Each consumes the
\* next record of the stream; the stream is read as it comes.

buildVars == << last_lat, last_lon, points, SCAL, GPSU, SYST, start_time,
                stats, GPSFIX, GPSFIX_next, fix_seen, first_gpsu, origin >>

\* the position in the stream that e2e follows, after a step: one further when
\* the step is the expected one at a position of from, -1 otherwise
Advance(pos, from, asExpected) ==
    IF pos \in from /\ asExpected THEN pos + 1 ELSE -1

\* the for loop takes the next record
Fetch ==
    /\ mpc = "build"
    /\ left = 0
    /\ nstep < StepBound(nfiles)
    /\ nstep' = nstep + 1

\* line 61-62
OnSCAL(scal) ==
    /\ Fetch
    /\ e2e' = Advance(e2e, {0}, scal = <<1, 1, 1>>)
    /\ SCAL' = scal
    /\ UNCHANGED << mainVars, mpc, last_lat, last_lon, points, GPSU, SYST,
                    start_time, stats, GPSFIX, GPSFIX_next, left, exc,
                    nsamp, fix_seen, first_gpsu, origin >>

\* the start time without line 65's test: every GPSU record sets it
StartTimeAfterGPSU_Latest(st, t) == Some(Decode(t))

\* line 65-67
StartTimeAfterGPSU(st, t) == IF st = None THEN Some(Decode(t)) ELSE st

\* line 63-67
OnGPSU(t) ==
    /\ Fetch
    /\ e2e' = Advance(e2e, {1}, TRUE)
    /\ GPSU' = Some(t)
    /\ start_time' = StartTimeAfterGPSU(start_time, t)
    /\ first_gpsu' = IF first_gpsu = None THEN Some(t) ELSE first_gpsu
    /\ UNCHANGED << mainVars, mpc, last_lat, last_lon, points, SCAL, SYST,
                    stats, GPSFIX, GPSFIX_next, left, exc, nsamp,
                    fix_seen, origin >>

\* the fix code without the delay: the code just received becomes active
FixAfterGPSF_NoDelay(fix, next, code) == Some(code)

\* line 72-76: the active fix code after a GPSF record carrying code
FixAfterGPSF(fix, next, code) == IF fix # None THEN Some(next) ELSE Some(code)

\* line 68-78
OnGPSF(code) ==
    /\ Fetch
    /\ e2e' = Advance(e2e, {2, 3}, code = 1)
    /\ GPSFIX' = FixAfterGPSF(GPSFIX, GPSFIX_next, code)
    /\ GPSFIX_next' = code
    /\ fix_seen' = IF fix_seen = << >> THEN << code >>
                   ELSE << fix_seen[Len(fix_seen)], code >>
    /\ UNCHANGED << mainVars, mpc, last_lat, last_lon, points, SCAL, GPSU,
                    SYST, start_time, stats, left, exc, nsamp,
                    first_gpsu, origin >>

\* line 82-85: a GPS5 record of k samples is reached; its samples follow
OnGPS5(k) ==
    /\ nstep + 1 + k <= StepBound(nfiles)
    /\ Fetch
    /\ e2e' = Advance(e2e, {4}, k = 1)
    /\ left' = k
    /\ UNCHANGED << mainVars, mpc, buildVars, exc, nsamp >>

\* line 92 and 133
BadFix(fix) == fix = Some(NoFix)

\* line 104
LatGlitch(last, lat) == last # None /\ AbsDiffOverOne(last[1], lat)

\* line 108
LonGlitch(last, lon) == last # None /\ AbsDiffOverOne(last[1], lon)

\* line 92-93 and 133-134
StatsAfterFixCheck(s, fix) == IF BadFix(fix) THEN Bump(s, "badfix") ELSE s

\* the skip flag read inverted
SkippedForFix_Inverted(fix, sk) == BadFix(fix) /\ ~sk

\* the skip flag not read: a sample without fix is always dropped
SkippedForFix_Always(fix, sk) == BadFix(fix)

\* line 94-97 and 135-138
SkippedForFix(fix, sk) == BadFix(fix) /\ sk

\* the sample scaled before the empty test instead of after the fix test
GPS5Outcome_ScaleFirst(it, fix, sk, scal, llat, llon, gpsu) ==
    IF ScaleRaises(ItemFields(it), scal) THEN "ZeroDivisionError"
    ELSE IF IsEmpty(it) THEN "empty"
    ELSE IF SkippedForFix(fix, sk) THEN "badfixskip"
    ELSE IF LatGlitch(llat, Scaled(ItemFields(it), scal)[1]) THEN "lat"
    ELSE IF LonGlitch(llon, Scaled(ItemFields(it), scal)[2]) THEN "lon"
    ELSE IF gpsu = None THEN "TypeError"
    ELSE "ok"

\* line 87-113: what becomes of one sample of a GPS5 record
GPS5Outcome(it, fix, sk, scal, llat, llon, gpsu) ==
    IF IsEmpty(it) THEN "empty"
    ELSE IF SkippedForFix(fix, sk) THEN "badfixskip"
    ELSE IF ScaleRaises(ItemFields(it), scal) THEN "ZeroDivisionError"
    ELSE IF LatGlitch(llat, Scaled(ItemFields(it), scal)[1]) THEN "lat"
    ELSE IF LonGlitch(llon, Scaled(ItemFields(it), scal)[2]) THEN "lon"
    ELSE IF gpsu = None THEN "TypeError"   \* time.mktime(None)
    ELSE "ok"

\* `ok` raised before the glitch test instead of after the append
StatsAfter_OkEarly(s, o, fix) ==
    IF o = "empty" THEN Bump(s, "empty")
    ELSE IF o = "badfixskip" THEN Bump(StatsAfterFixCheck(s, fix), "badfixskip")
    ELSE IF o \in {"ok", "lat", "lon"} THEN Bump(StatsAfterFixCheck(s, fix), "ok")
    ELSE StatsAfterFixCheck(s, fix)

\* a skipped sample counted in `badfixskip` alone
StatsAfter_SkipOnly(s, o, fix) ==
    IF o = "empty" THEN Bump(s, "empty")
    ELSE IF o = "badfixskip" THEN Bump(s, "badfixskip")
    ELSE IF o = "ok" THEN Bump(StatsAfterFixCheck(s, fix), "ok")
    ELSE StatsAfterFixCheck(s, fix)

\* line 89, 93, 96, 115 and 130, 134, 137, 146: the counters after a sample
StatsAfter(s, o, fix) ==
    IF o = "empty" THEN Bump(s, "empty")
    ELSE IF o = "badfixskip" THEN Bump(StatsAfterFixCheck(s, fix), "badfixskip")
    ELSE IF o = "ok" THEN Bump(StatsAfterFixCheck(s, fix), "ok")
    ELSE StatsAfterFixCheck(s, fix)

\* the reference updated before the glitch test's continue, not after it
LastAfter_Always(last, o, v) == IF o \in {"ok", "lat", "lon"} THEN Some(v) ELSE last

\* line 116-117: the glitch filter's reference after a sample
LastAfter(last, o, v) == IF o = "ok" THEN Some(v) ELSE last

Raises(o) == o \in {"ZeroDivisionError", "TypeError"}

\* the timestamp taken with datetime.utcfromtimestamp
PointTime_Utc(gpsu) == Div(Mktime(gpsu[1]), 1)

\* line 113: datetime.fromtimestamp(time.mktime(GPSU))
PointTime(gpsu) == Decode(gpsu[1])

\* the sample got past line 102: its scaled value exists
ReachedFilter(o) == o \in {"lat", "lon", "TypeError", "ok"}

\* line 85-117: one iteration of the inner loop
OnGPS5Item(it) ==
    /\ mpc = "build"
    /\ left > 0
    /\ left' = left - 1
    /\ nsamp' = nsamp + 1
    /\ nstep' = nstep + 1
    /\ e2e' = Advance(e2e, {5}, it = Sample(10, 20, 0))
    /\ UNCHANGED << mainVars, SCAL, GPSU, SYST, start_time, GPSFIX,
                    GPSFIX_next, fix_seen, first_gpsu >>
    /\ LET o == GPS5Outcome(it, GPSFIX, skip, SCAL, last_lat, last_lon, GPSU) IN
        /\ stats' = StatsAfter(stats, o, GPSFIX)
        /\ mpc' = IF Raises(o) THEN "crash" ELSE mpc
        /\ exc' = IF Raises(o) THEN o ELSE exc
        /\ IF o = "ok"
           THEN /\ points' = AddPoint(points,
                        LET gpsdata == Scaled(ItemFields(it), SCAL) IN
                        GPSPoint(gpsdata[1], gpsdata[2], gpsdata[3], PointTime(GPSU)))
                /\ origin' = Append(origin, "GPS5")
           ELSE UNCHANGED << points, origin >>
        /\ IF ReachedFilter(o)
           THEN /\ last_lat' = LastAfter(last_lat, o, Scaled(ItemFields(it), SCAL)[1])
                /\ last_lon' = LastAfter(last_lon, o, Scaled(ItemFields(it), SCAL)[2])
           ELSE UNCHANGED << last_lat, last_lon >>

\* the test written with `or`: one non-zero field is enough
SystValid_Or(data) == data[1].n # 0 \/ data[2].n # 0

\* line 121
SystValid(data) == data[1].n # 0 /\ data[2].n # 0

\* line 119-122
OnSYST(p) ==
    /\ Fetch
    /\ e2e' = Advance(e2e, {}, FALSE)
    /\ IF ScaleRaises(p, SCAL)
       THEN /\ mpc' = "crash"
            /\ exc' = "ZeroDivisionError"
            /\ UNCHANGED SYST
       ELSE /\ SYST' = IF SystValid(Scaled(p, SCAL)) THEN Scaled(p, SCAL) ELSE SYST
            /\ UNCHANGED << mpc, exc >>
    /\ UNCHANGED << mainVars, last_lat, last_lon, points, SCAL, GPSU,
                    start_time, stats, GPSFIX, GPSFIX_next, left, nsamp,
                    fix_seen, first_gpsu, origin >>

\* line 143
SystSet(syst) == syst[1].n # 0 /\ syst[2].n # 0

\* line 128-143: what becomes of a GPRI record
GPRIOutcome(it, fix, sk, scal, syst) ==
    IF IsEmpty(it) THEN "empty"
    ELSE IF SkippedForFix(fix, sk) THEN "badfixskip"
    ELSE IF ScaleRaises(ItemFields(it), scal) THEN "ZeroDivisionError"
    ELSE IF SystSet(syst) THEN "ok"
    ELSE "nosyst"

\* line 125-146
OnGPRI(it) ==
    /\ Fetch
    /\ e2e' = Advance(e2e, {}, FALSE)
    /\ UNCHANGED << mainVars, last_lat, last_lon, SCAL, GPSU, SYST, start_time,
                    GPSFIX, GPSFIX_next, left, nsamp, fix_seen, first_gpsu >>
    /\ LET o == GPRIOutcome(it, GPSFIX, skip, SCAL, SYST) IN
        /\ stats' = StatsAfter(stats, o, GPSFIX)
        /\ mpc' = IF Raises(o) THEN "crash" ELSE mpc
        /\ exc' = IF Raises(o) THEN o ELSE exc
        /\ IF o = "ok"
           THEN LET gpsdata == Scaled(ItemFields(it), SCAL) IN
                /\ points' = AddPoint(points,
                        GPSPoint(gpsdata[1], gpsdata[2], gpsdata[3], FromTimestamp(SYST[2])))
                /\ origin' = Append(origin, "GPRI")
           ELSE UNCHANGED << points, origin >>

\* a record with any other tag counted as an empty sample
OnOther_Counted(tag) ==
    /\ Fetch
    /\ e2e' = Advance(e2e, {}, FALSE)
    /\ stats' = Bump(stats, "empty")
    /\ UNCHANGED << mainVars, mpc, last_lat, last_lon, points, SCAL, GPSU,
                    SYST, start_time, GPSFIX, GPSFIX_next, fix_seen,
                    first_gpsu, origin, left, exc, nsamp >>

\* line 59-146: a record with any other tag matches no branch
OnOther(tag) ==
    /\ Fetch
    /\ e2e' = Advance(e2e, {}, FALSE)
    /\ UNCHANGED << mainVars, mpc, buildVars, left, exc, nsamp >>

----------------------------------------------------------------------------
\* main()

\* line 178-189: the next file is parsed and BuildGPSPoints is called on it
StartFile ==
    /\ mpc = "loop"
    /\ file_idx < nfiles
    /\ mpc' = "build"
    /\ last_lat' = None
    /\ last_lon' = None
    /\ points' = << >>
    /\ SCAL' = <<1, 1, 1>>
    /\ GPSU' = None
    /\ SYST' = << Div(0, 1), Div(0, 1) >>
    /\ start_time' = None
    /\ stats' = ZeroStats
    /\ GPSFIX' = None
    /\ GPSFIX_next' = 0
    /\ left' = 0
    /\ exc' = ""
    /\ nsamp' = 0
    /\ fix_seen' = << >>
    /\ first_gpsu' = None
    /\ origin' = << >>
    /\ e2e' = 0
    /\ UNCHANGED << mainVars, nstep >>

\* line 194: the decision to abort, taken with the points accumulated so far
Abort(pts) == Len(pts) = 0

\* the start time of the last file that has one
MergeStart_Last(mst, fst) == IF fst # None THEN fst ELSE mst

\* line 190-191
MergeStart(mst, fst) == IF mst = None THEN fst ELSE mst

\* line 160 and 189-196: the stream is exhausted, BuildGPSPoints returns and
\* main() merges the result
Return ==
    /\ mpc = "build"
    /\ left = 0
    /\ m_start_time' = MergeStart(m_start_time, start_time)
    /\ m_points' = m_points \o points
    /\ file_idx' = file_idx + 1
    /\ mpc' = IF Abort(m_points') THEN "exit" ELSE "loop"
    /\ parts' = Append(parts, [points |-> points, start_time |-> start_time])
    /\ UNCHANGED << skip, nfiles, kml_written, gpx_written, buildVars, left,
                    exc, nstep, nsamp, e2e >>

\* line 198-200
WriteKML ==
    /\ mpc = "loop"
    /\ file_idx = nfiles
    /\ kml_written' = TRUE
    /\ mpc' = "kml"
    /\ UNCHANGED << skip, nfiles, file_idx, m_points, m_start_time, gpx_written,
                    buildVars, left, exc, nstep, nsamp, parts, e2e >>

\* line 202-205
WriteGPX ==
    /\ mpc = "kml"
    /\ gpx_written' = TRUE
    /\ mpc' = "done"
    /\ UNCHANGED << skip, nfiles, file_idx, m_points, m_start_time, kml_written,
                    buildVars, left, exc, nstep, nsamp, parts, e2e >>

Next ==
    \/ StartFile
    \/ \E scal \in Scales : OnSCAL(scal)
    \/ \E t \in Times : OnGPSU(t)
    \/ \E code \in FixCodes : OnGPSF(code)
    \/ \E k \in 0..MaxSteps : OnGPS5(k)
    \/ \E it \in Samples : OnGPS5Item(it)
    \/ \E p \in SystPayloads : OnSYST(p)
    \/ \E it \in KarmaSamples : OnGPRI(it)
    \/ \E tag \in OtherTags : OnOther(tag)
    \/ Return
    \/ WriteKML
    \/ WriteGPX

Spec == Init /\ [][Next]_vars

----------------------------------------------------------------------------
\* Properties

AllZero(it) == it.lat = 0 /\ it.lon = 0 /\ it.alt = 0

\* indices of the GPS5-derived Points of the list
GPS5Indices == { i \in 1..Len(origin) : origin[i] = "GPS5" }

Max(S) == CHOOSE x \in S : \A y \in S : y <= x

\* | |a| - |b| | <= 1 for rationals a and b
WithinOne(a, b) == Abs(Abs(a.n) * b.d - Abs(b.n) * a.d) <= a.d * b.d

\* | |prev| - |raw / sc| | > 1 for a rational prev and integers raw, sc # 0
JumpOverOne(prev, raw, sc) ==
    Abs(Abs(prev.n) * Abs(sc) - Abs(raw) * prev.d) > prev.d * Abs(sc)

SomeCounterUp == \E k \in DOMAIN stats : stats'[k] > stats[k]

\* C1: one-sample fix delay.  After the first GPSF record of a stream the
\* active fix code is that record's code; after every later GPSF record it is
\* the code of the GPSF record before it, whatever records lie in between; before
\* the first GPSF record there is no active code.
C1_FixDelay ==
    /\ (fix_seen = << >> => GPSFIX = None)
    /\ (fix_seen # << >> => GPSFIX = Some(fix_seen[1]))
    /\ (Len(fix_seen) = 2 => GPSFIX_next = fix_seen[2])

\* C1 witness: after the fix records [.., 5, 0] the active code is 5, not 0
C1_Witness ==
    /\ fix_seen = << 5, 0 >>
    /\ GPSFIX = Some(5)
    /\ mpc = "build"

\* C2: a GPS5 sample or GPRI record whose latitude, longitude and altitude are
\* all zero appends no Point, raises `empty` by exactly one, changes no other
\* counter and no context and raises no error, under every fix code, skip
\* policy and scale vector.
C2_EmptyCounted ==
    [][ (OnGPS5Item(Sample(0, 0, 0)) \/ OnGPRI(Sample(0, 0, 0))) =>
          /\ points' = points
          /\ stats' = [stats EXCEPT !.empty = @ + 1]
          /\ UNCHANGED << SCAL, GPSU, SYST, start_time, GPSFIX, GPSFIX_next,
                          last_lat, last_lon >>
          /\ mpc' = "build"
          /\ exc' = "" ]_vars

\* C2 witness: inside a GPS5 record, its first sample was empty and was
\* counted while the scale has a zero component, the fix is lost and the skip
\* policy is on
C2_Witness ==
    /\ mpc = "build"
    /\ left = 1 /\ nsamp = 1
    /\ stats = [ok |-> 0, badfix |-> 0, badfixskip |-> 0, empty |-> 1]
    /\ SCAL[1] = 0
    /\ GPSFIX = Some(NoFix)
    /\ skip

\* C3: with the skip policy on and the no-fix code active, a non-empty GPS5
\* sample appends no Point, leaves the glitch filter's reference and `ok`
\* unchanged, and raises `badfix` and `badfixskip` by exactly one each.
C3_SkipRejects ==
    [][ \A it \in Samples :
          (left > 0 /\ skip /\ GPSFIX = Some(0) /\ ~AllZero(it) /\ OnGPS5Item(it)) =>
            /\ points' = points
            /\ UNCHANGED << last_lat, last_lon >>
            /\ stats' = [stats EXCEPT !.badfix = @ + 1, !.badfixskip = @ + 1]
            /\ mpc' = "build" ]_vars

\* C3 witness: inside a GPS5 record read after a GPSU record, its first
\* sample was dropped for the lost fix
C3_Witness ==
    /\ mpc = "build"
    /\ left = 1 /\ nsamp = 1
    /\ skip
    /\ GPSFIX = Some(NoFix)
    /\ GPSU # None
    /\ stats = [ok |-> 0, badfix |-> 1, badfixskip |-> 1, empty |-> 0]
    /\ points = << >>

\* C4: with the skip policy off and the no-fix code active, a non-empty GPS5
\* sample raises `badfix` by exactly one, leaves `badfixskip` at 0, and is
\* appended (raising `ok`) exactly when the same sample would be appended
\* under a non-zero fix code.
C4_PassThrough ==
    [][ \A it \in Samples :
          (left > 0 /\ ~skip /\ GPSFIX = Some(0) /\ ~AllZero(it) /\ OnGPS5Item(it)) =>
            LET good == \A c \in FixCodes \ {0} :
                          GPS5Outcome(it, Some(c), skip, SCAL, last_lat,
                                      last_lon, GPSU) = "ok"
                bad  == \A c \in FixCodes \ {0} :
                          GPS5Outcome(it, Some(c), skip, SCAL, last_lat,
                                      last_lon, GPSU) # "ok"
            IN  /\ stats'.badfix = stats.badfix + 1
                /\ stats'.badfixskip = 0
                /\ stats'.empty = stats.empty
                /\ good \/ bad
                /\ good => /\ Len(points') = Len(points) + 1
                           /\ stats'.ok = stats.ok + 1
                /\ bad  => /\ points' = points
                           /\ stats'.ok = stats.ok ]_vars

\* C4 witness: inside a GPS5 record, its first sample was counted as a bad
\* fix and accepted all the same
C4_Witness ==
    /\ mpc = "build"
    /\ left = 1 /\ nsamp = 1
    /\ ~skip
    /\ GPSFIX = Some(NoFix)
    /\ stats = [ok |-> 1, badfix |-> 1, badfixskip |-> 0, empty |-> 0]
    /\ Len(points) = 1

\* C5: a GPS5 sample that passed the empty test, the fix test and the scaling
\* is rejected (no Point, the run goes on) if and only if a GPS5-derived Point
\* was accepted before and | |prev_lat| - |lat| | > 1 or
\* | |prev_lon| - |lon| | > 1 on the scaled values; a sample that is not
\* rejected is appended when a device time is set.
C5_GlitchDecision ==
    [][ \A it \in Samples :
          ( /\ left > 0
            /\ ~AllZero(it)
            /\ ~(skip /\ GPSFIX = Some(0))
            /\ \A i \in 1..3 : SCAL[i] # 0
            /\ OnGPS5Item(it) ) =>
            LET prev  == points[Max(GPS5Indices)]
                jump  == /\ GPS5Indices # {}
                         /\ \/ JumpOverOne(prev.lat, it.lat, SCAL[1])
                            \/ JumpOverOne(prev.lon, it.lon, SCAL[2])
            IN  /\ (points' = points /\ mpc' = "build") <=> jump
                /\ (~jump /\ GPSU # None) =>
                      /\ Len(points') = Len(points) + 1
                      /\ mpc' = "build" ]_vars

\* C5 witness: latitude 45.0 followed by latitude -45.3, both accepted
C5_Witness ==
    \E i \in 1..(Len(points) - 1) :
        /\ origin[i] = "GPS5" /\ origin[i + 1] = "GPS5"
        /\ points[i].lat = [n |-> 45, d |-> 1]
        /\ points[i + 1].lat = [n |-> -453, d |-> 10]

\* C6: the glitch filter's reference is the latitude and longitude of the last
\* GPS5-derived Point accepted (absent when there is none), so no rejected
\* sample and no GPRI record changes it; and every GPS5-derived Point differs
\* from the GPS5-derived Point before it by at most 1 in |lat| and in |lon|.
C6_Reference ==
    /\ (GPS5Indices = {} => last_lat = None /\ last_lon = None)
    /\ (GPS5Indices # {} =>
          /\ last_lat = Some(points[Max(GPS5Indices)].lat)
          /\ last_lon = Some(points[Max(GPS5Indices)].lon))
    /\ \A i, j \in GPS5Indices :
          (i < j /\ \A k \in GPS5Indices : ~(i < k /\ k < j)) =>
             /\ WithinOne(points[i].lat, points[j].lat)
             /\ WithinOne(points[i].lon, points[j].lon)

\* C6 witness: of three samples of a stream at scale 10, one was rejected by the
\* glitch filter; 45.0 and 45.3 were accepted and 45.3 is the reference
C6_Witness ==
    /\ nsamp = 3
    /\ stats = [ok |-> 2, badfix |-> 0, badfixskip |-> 0, empty |-> 0]
    /\ Len(points) = 2
    /\ points[1].lat = [n |-> 45, d |-> 1]
    /\ points[2].lat = [n |-> 453, d |-> 10]
    /\ last_lat = Some([n |-> 453, d |-> 10])

\* C7: when the accumulated point list is empty once the files have been
\* processed, neither the KML nor the GPX file is written.
C7_NoOutputWithoutPoints ==
    Len(m_points) = 0 => ~kml_written /\ ~gpx_written

\* C8: the zero-points abort is decided only after every input file has been
\* folded.
C8_AbortAfterAllFiles ==
    mpc = "exit" => file_idx = nfiles

\* C9: every GPS5 sample rejected as empty, for a bad fix under the skip
\* policy or by the glitch filter raises at least one counter, and the run
\* goes on.
C9_RejectionCounted ==
    [][ \A it \in Samples :
          ( /\ OnGPS5Item(it)
            /\ GPS5Outcome(it, GPSFIX, skip, SCAL, last_lat, last_lon, GPSU)
                 \in {"empty", "badfixskip", "lat", "lon"} ) =>
            /\ mpc' = "build"
            /\ SomeCounterUp ]_vars

\* C10: the start time is the decoded timestamp of the first GPSU record of
\* the stream, whatever GPSU records follow, and it is absent exactly when the
\* stream has had no GPSU record.
C10_StartTime ==
    /\ (first_gpsu = None <=> start_time = None)
    /\ (first_gpsu # None => start_time = Some(Decode(first_gpsu[1])))
    /\ (GPSU = None <=> first_gpsu = None)

\* C10 witness: BuildGPSPoints returned with the first GPSU record's time as
\* start time after a later GPSU record with another time
C10_Witness ==
    /\ mpc \in {"loop", "exit"}
    /\ file_idx = 1
    /\ first_gpsu = Some(100)
    /\ GPSU = Some(200)
    /\ start_time = Some(Decode(100))

\* Point p is the Point of sample it under scale scal
PointOf(p, it, scal) ==
    /\ p.lat = Div(it.lat, scal[1])
    /\ p.lon = Div(it.lon, scal[2])
    /\ p.alt = Div(it.alt, scal[3])

\* C11: within one call the accepted-points list only grows at its end: a
\* step leaves it as it is or appends one Point, the Point of the sample or
\* GPRI record just processed, so Points stand in the order of their samples,
\* inside one GPS5 record too.
C11_AppendOnly ==
    [][ (mpc = "build" /\ points' # points) =>
          /\ Len(points') = Len(points) + 1
          /\ SubSeq(points', 1, Len(points)) = points
          /\ \A it \in Samples :
                (left > 0 /\ OnGPS5Item(it)) =>
                   PointOf(points'[Len(points')], it, SCAL)
          /\ \A it \in KarmaSamples :
                (left = 0 /\ OnGPRI(it)) =>
                   PointOf(points'[Len(points')], it, SCAL) ]_vars

\* C11 witness: the two samples of one GPS5 record at scale 10, latitude 45.0
\* and then 45.3, stand in the list in that order
C11_Witness ==
    /\ nstep = 5 /\ nsamp = 2 /\ left = 0
    /\ origin = << "GPS5", "GPS5" >>
    /\ points[1].lat = [n |-> 45, d |-> 1]
    /\ points[2].lat = [n |-> 453, d |-> 10]

\* C14: a scale component that is zero never ends the run: the sample that
\* needs it is skipped and the records after it are processed.
C14_ZeroScaleRecoverable ==
    exc # "ZeroDivisionError"

\* C19: `ok` is the length of the accepted-points list.
C19_OkIsLength ==
    stats.ok = Len(points)

\* C19 witness: a GPRI Point and a GPS5 Point were accepted and a sample was
\* rejected by the glitch filter
C19_Witness ==
    /\ "GPS5" \in { origin[i] : i \in 1..Len(origin) }
    /\ "GPRI" \in { origin[i] : i \in 1..Len(origin) }
    /\ nsamp > Cardinality(GPS5Indices) + stats.empty + stats.badfixskip
    /\ mpc = "build"

RECURSIVE ConcatPoints(_)
ConcatPoints(ps) ==
    IF ps = << >> THEN << >> ELSE ps[1].points \o ConcatPoints(Tail(ps))

RECURSIVE FirstStart(_)
FirstStart(ps) ==
    IF ps = << >> THEN None
    ELSE IF ps[1].start_time # None THEN ps[1].start_time
    ELSE FirstStart(Tail(ps))

\* C12: no state passes from one file's call to the next: every call of
\* BuildGPSPoints starts with scale (1,1,1), no fix, no device time, no system
\* time, no reference, zero counters and an empty list; main's point list is
\* the concatenation, in file order, of the calls' results and main's start
\* time is that of the first call, in file order, that returned one.
C12_NoLeak ==
    /\ [](/\ m_points = ConcatPoints(parts)
          /\ m_start_time = FirstStart(parts)
          /\ Len(parts) = file_idx)
    /\ [][ (mpc = "loop" /\ mpc' = "build") =>
              /\ last_lat' = << >> /\ last_lon' = << >>
              /\ points' = << >>
              /\ SCAL' = <<1, 1, 1>>
              /\ GPSU' = << >>
              /\ SYST' = << [n |-> 0, d |-> 1], [n |-> 0, d |-> 1] >>
              /\ start_time' = << >>
              /\ stats' = [ok |-> 0, badfix |-> 0, badfixskip |-> 0, empty |-> 0]
              /\ GPSFIX' = << >>
              /\ GPSFIX_next' = 0
              /\ UNCHANGED << m_points, m_start_time >> ]_vars

\* C12 witness: main() ran to completion over two files; the first returned a
\* Point and no start time, the second a start time, which is main's
C12_Witness ==
    /\ mpc = "done"
    /\ Len(parts) = 2
    /\ Len(parts[1].points) = 1
    /\ parts[1].start_time = None
    /\ parts[2].start_time # None
    /\ m_start_time = parts[2].start_time
    /\ m_points = parts[1].points \o parts[2].points

AppendsOne ==
    /\ Len(points') = Len(points) + 1
    /\ SubSeq(points', 1, Len(points)) = points
    /\ stats'.ok = stats.ok + 1

\* the record got past the empty check and the fix check of its branch
PassesChecks(it) == ~AllZero(it) /\ ~(skip /\ GPSFIX = Some(NoFix))

\* C15: a GPRI record that passes the empty check and the fix check appends
\* exactly one Point and increments ok if and only if the system-time context
\* has both fields non-zero, whatever the previous accepted latitude and
\* longitude; a GPRI record changes no context and not the pending fix code.
C15_GPRIAppends ==
    [][ \A it \in KarmaSamples : (left = 0 /\ OnGPRI(it)) =>
          /\ UNCHANGED << SCAL, GPSFIX, GPSFIX_next, GPSU, SYST >>
          /\ PassesChecks(it) => (AppendsOne <=> SystSet(SYST)) ]_vars


ZeroSyst == << [n |-> 0, d |-> 1], [n |-> 0, d |-> 1] >>

\* C16: a SYST record replaces the system-time context with its fields
\* divided by the scale vector if and only if both quotients are non-zero, and
\* leaves it unchanged otherwise; the context of a run starts as (0, 0), so it
\* is (0, 0) or has both fields non-zero, and once both are non-zero they
\* stay so for the rest of the run.
C16_SystReplaced ==
    /\ [](SYST = ZeroSyst \/ (SYST[1].n # 0 /\ SYST[2].n # 0))
    /\ [][ /\ (mpc = "loop" /\ mpc' = "build") => SYST' = ZeroSyst
           /\ (mpc = "build" /\ SYST[1].n # 0 /\ SYST[2].n # 0)
                 => (SYST'[1].n # 0 /\ SYST'[2].n # 0)
           /\ \A p \in SystPayloads : (left = 0 /\ OnSYST(p)) =>
                 SYST' = IF /\ SCAL[1] # 0 /\ SCAL[2] # 0
                            /\ p[1] # 0 /\ p[2] # 0
                         THEN << Div(p[1], SCAL[1]), Div(p[2], SCAL[2]) >>
                         ELSE SYST ]_vars

\* a context set under the scale (10, 10, 1) was kept by the records after it
C16_Witness ==
    /\ mpc = "build"
    /\ SYST = << [n |-> 7, d |-> 10], [n |-> 50, d |-> 1] >>
    /\ nstep >= 4

SomeSCAL == \E scal \in Scales : OnSCAL(scal)
SomeGPSU == \E t \in Times : OnGPSU(t)
SomeGPSF == \E code \in FixCodes : OnGPSF(code)
SomeSYST == \E p \in SystPayloads : OnSYST(p)

C18_Counters ==
    /\ [](/\ stats.badfixskip <= stats.badfix
          /\ \A k \in DOMAIN stats : stats[k] >= 0)
    /\ [][ /\ (mpc = "loop" /\ mpc' = "build") => stats' = ZeroStats
           /\ mpc = "build" =>
                \A k \in DOMAIN stats :
                    stats[k] <= stats'[k] /\ stats'[k] <= stats[k] + 1 ]_vars

C18_Witness ==
    /\ stats.ok >= 1 /\ stats.empty >= 1
    /\ stats.badfix >= 2 /\ stats.badfixskip >= 1

\* C20: a GPS5 Point carries the time of the latest GPSU record before its
\* sample, which no sample of the record changes; with no GPSU record yet
\* nothing is appended, and a sample that passed every filter raises
\* TypeError; hence a list with a GPS5 Point comes with a start time.
C20_DeviceTime ==
    /\ [](GPS5Indices # {} => (GPSU # None /\ start_time # None))
    /\ [][ /\ \A t \in Times : (left = 0 /\ OnGPSU(t)) => GPSU' = Some(t)
           /\ left > 0 =>
                /\ GPSU' = GPSU
                /\ \A it \in Samples : OnGPS5Item(it) =>
                     /\ Len(points') > Len(points) =>
                          /\ GPSU # None
                          /\ points'[Len(points')].time = [n |-> GPSU[1], d |-> 1]
                     /\ (GPSU = None /\ PassesChecks(it) /\ 0 \notin { SCAL[i] : i \in 1..3 })
                          => (mpc' = "crash" /\ exc' = "TypeError" /\ points' = points)
         ]_vars

\* two GPS5 Points of two records, each after its own GPSU record
C20_Witness ==
    /\ origin = << "GPS5", "GPS5" >>
    /\ points[1].time = [n |-> 100, d |-> 1]
    /\ points[2].time = [n |-> 200, d |-> 1]

====
